---- MODULE Spec2Model ----
(***************************************************************************)
(* Model of src/rust/phone_encoder/src/main.rs: the Prechelt phone-number  *)
(* encoder (dictionary index, backtracking search, acceptance filter and   *)
(* streaming formatter).                                                   *)
(*                                                                         *)
(* Text is a sequence of one-character strings; a byte (u8) is an integer. *)
(* The recursion of print_translations is an explicit call stack `frames`, *)
(* one record per active call, holding the call's arguments and locals.    *)
(***************************************************************************)
EXTENDS Integers, Sequences, FiniteSets, TLC

(* ----------------------------- bounds ---------------------------------- *)
MaxWords == 2      \* lines read from the words file
MaxWordLen == 2    \* characters of one dictionary line
MaxNums == 2       \* lines read from the numbers file
MaxLen == 4        \* characters of one numbers line

(* --------------------------- characters -------------------------------- *)
Lower == {"a","b","c","d","e","f","g","h","i","j","k","l","m",
          "n","o","p","q","r","s","t","u","v","w","x","y","z"}
Upper == {"A","B","C","D","E","F","G","H","I","J","K","L","M",
          "N","O","P","Q","R","S","T","U","V","W","X","Y","Z"}
DigitChars == {"0","1","2","3","4","5","6","7","8","9"}

\* b'0'
B0 == 48

\* `ch as u8` for the characters that pass the is_ascii_digit filter
AsU8(ch) ==
    CASE ch = "0" -> 48 [] ch = "1" -> 49 [] ch = "2" -> 50 [] ch = "3" -> 51
      [] ch = "4" -> 52 [] ch = "5" -> 53 [] ch = "6" -> 54 [] ch = "7" -> 55
      [] ch = "8" -> 56 [] ch = "9" -> 57

is_ascii_digit(ch) == ch \in DigitChars

is_ascii_alphabetic(ch) == ch \in Lower \cup Upper

to_ascii_lowercase(ch) ==
    CASE ch = "A" -> "a" [] ch = "B" -> "b" [] ch = "C" -> "c" [] ch = "D" -> "d"
      [] ch = "E" -> "e" [] ch = "F" -> "f" [] ch = "G" -> "g" [] ch = "H" -> "h"
      [] ch = "I" -> "i" [] ch = "J" -> "j" [] ch = "K" -> "k" [] ch = "L" -> "l"
      [] ch = "M" -> "m" [] ch = "N" -> "n" [] ch = "O" -> "o" [] ch = "P" -> "p"
      [] ch = "Q" -> "q" [] ch = "R" -> "r" [] ch = "S" -> "s" [] ch = "T" -> "t"
      [] ch = "U" -> "u" [] ch = "V" -> "v" [] ch = "W" -> "w" [] ch = "X" -> "x"
      [] ch = "Y" -> "y" [] ch = "Z" -> "z"
      [] OTHER -> ch

\* variant: the telephone keypad (abc 2, def 3, ghi 4, jkl 5, mno 6, pqrs 7,
\* tuv 8, wxyz 9) in place of the table of the code
char_to_digitKeypad(ch) ==
    LET c == to_ascii_lowercase(ch) IN
    CASE c \in {"a", "b", "c"} -> 2
      [] c \in {"d", "e", "f"} -> 3
      [] c \in {"g", "h", "i"} -> 4
      [] c \in {"j", "k", "l"} -> 5
      [] c \in {"m", "n", "o"} -> 6
      [] c \in {"p", "q", "r", "s"} -> 7
      [] c \in {"t", "u", "v"} -> 8
      [] c \in {"w", "x", "y", "z"} -> 9

\* The match has no arm for other characters but the panic: evaluating
\* char_to_digit outside a..z / A..Z stops the run, as the CASE without
\* OTHER does here.
char_to_digit(ch) ==
    LET c == to_ascii_lowercase(ch) IN
    CASE c = "e" -> 0
      [] c \in {"j", "n", "q"} -> 1
      [] c \in {"r", "w", "x"} -> 2
      [] c \in {"d", "s", "y"} -> 3
      [] c \in {"f", "t"} -> 4
      [] c \in {"a", "m"} -> 5
      [] c \in {"c", "i", "v"} -> 6
      [] c \in {"b", "k", "u"} -> 7
      [] c \in {"l", "o", "p"} -> 8
      [] c \in {"g", "h", "z"} -> 9

\* Display of a u8 in 0..9
FmtU8(d) ==
    CASE d = 0 -> "0" [] d = 1 -> "1" [] d = 2 -> "2" [] d = 3 -> "3"
      [] d = 4 -> "4" [] d = 5 -> "5" [] d = 6 -> "6" [] d = 7 -> "7"
      [] d = 8 -> "8" [] d = 9 -> "9"

(* ----------------------------- helpers --------------------------------- *)
Front(s) == SubSeq(s, 1, Len(s) - 1)
Last(s) == s[Len(s)]

\* word.chars().filter(is_ascii_alphabetic).map(char_to_digit).map(|d| d + b'0')
word_to_number(word) ==
    LET letters == SelectSeq(word, is_ascii_alphabetic)
    IN  [k \in 1..Len(letters) |-> char_to_digit(letters[k]) + B0]

\* num.chars().filter(is_ascii_digit).map(|ch| ch as u8)
StripDigits(num) ==
    LET ds == SelectSeq(num, is_ascii_digit)
    IN  [k \in 1..Len(ds) |-> AsU8(ds[k])]

(* ---------------------------- dictionary ------------------------------- *)
\* dict.entry(key).or_default().push(word)
DictInsert(d, word) ==
    LET key == word_to_number(word) IN
    IF key \in DOMAIN d
    THEN [d EXCEPT ![key] = Append(@, word)]
    ELSE [k \in DOMAIN d \cup {key} |-> IF k = key THEN <<word>> ELSE d[k]]

EmptyDict == [k \in {} |-> <<>>]

RECURSIVE load_dict(_)
load_dict(ws) ==
    IF ws = <<>> THEN EmptyDict
    ELSE DictInsert(load_dict(Front(ws)), Last(ws))

(* ----------------------------- segments -------------------------------- *)
Word(w) == [kind |-> "Word", w |-> w]
Digit(d) == [kind |-> "Digit", d |-> d]
IsDigit(seg) == seg.kind = "Digit"

\* WordOrDigit::len
SegLen(seg) == IF seg.kind = "Word" THEN Len(seg.w) ELSE 1

\* Display for WordOrDigit
SegFmt(seg) == IF seg.kind = "Word" THEN seg.w ELSE <<FmtU8(seg.d)>>

(* ------------------------- acceptance filter --------------------------- *)
\* variant: the scan without the comparison of the word lengths
RECURSIVE ScanFromNoLength(_, _, _, _)
ScanFromNoLength(ws, k, was_digit, acceptable_len) ==
    IF k > Len(ws) THEN TRUE
    ELSE IF was_digit = IsDigit(ws[k]) THEN FALSE
    ELSE ScanFromNoLength(ws, k + 1, IsDigit(ws[k]), acceptable_len)

\* The scan of words[1..] with its two locals; returns the verdict.
RECURSIVE ScanFrom(_, _, _, _)
ScanFrom(ws, k, was_digit, acceptable_len) ==
    IF k > Len(ws) THEN TRUE
    ELSE LET word == ws[k]
             alen == IF acceptable_len = 0 THEN SegLen(word) ELSE acceptable_len
             is_digit == IsDigit(word)
         IN  IF was_digit = is_digit \/ (~is_digit /\ SegLen(word) # alen)
             THEN FALSE
             ELSE ScanFrom(ws, k + 1, is_digit, alen)

\* variant: the empty stack is accepted
should_printAcceptsEmpty(ws) ==
    IF Len(ws) <= 1 THEN TRUE
    ELSE IF ws[1].kind = "Word"
         THEN ScanFrom(ws, 2, FALSE, Len(ws[1].w))
         ELSE ScanFrom(ws, 2, TRUE, 0)

should_print(ws) ==
    IF ws = <<>> THEN FALSE
    ELSE IF Len(ws) = 1 THEN TRUE
    ELSE IF ws[1].kind = "Word"
         THEN ScanFrom(ws, 2, FALSE, Len(ws[1].w))
         ELSE ScanFrom(ws, 2, TRUE, 0)

(* ------------------------------ formatter ------------------------------ *)
RECURSIVE HeadFmt(_)
HeadFmt(ws) ==
    IF ws = <<>> THEN <<>>
    ELSE SegFmt(Head(ws)) \o <<" ">> \o HeadFmt(Tail(ws))

\* print_solution: the verdict and the bytes written to the writer
print_solution(num, ws) ==
    IF ~should_print(ws) THEN [ok |-> FALSE, bytes |-> <<>>]
    ELSE IF ws = <<>> THEN [ok |-> TRUE, bytes |-> num \o <<":">>]
    ELSE [ok |-> TRUE,
          bytes |-> num \o <<":", " ">> \o HeadFmt(Front(ws))
                        \o SegFmt(Last(ws)) \o <<"\n">>]

(* ------------------------------- inputs -------------------------------- *)
SeqsUpTo(S, n) == UNION {[1..k -> S] : k \in 0..n}

\* characters of the dictionary lines: a letter of the digit 0, a letter of
\* the digit 1 and a non-letter
WordChars == {"e", "n", "'"}
\* characters of the numbers lines: a digit some word has, a digit no word
\* has, and a separator
NumChars == {"0", "1", "-"}

\* every line of at most MaxWordLen characters, the empty line included
WordLines == SeqsUpTo(WordChars, MaxWordLen)
\* every line of at most MaxLen characters whose separator, if it has one,
\* is its first character
NumLines ==
    {s \in SeqsUpTo(NumChars, MaxLen) : \A k \in 1..Len(s) : s[k] = "-" => k = 1}

\* the lines of the worked example
tree == <<"t", "r", "e", "e">>
free == <<"f", "r", "e", "e">>
Tee == <<"T", "e", "e">>
n3733 == <<"3", "7", "3", "3">>
n4200 == <<"4", "2", "0", "0">>
n42_00 == <<"4", "2", "-", "0", "0">>
n4003 == <<"4", "0", "0", "3">>
ExWords == {tree, free, Tee}
ExNums == {n3733, n4200, n42_00, n4003}

(* ------------------------------- state --------------------------------- *)
VARIABLES
    pc,                       \* position of main: "load", "run", "done"
    nwords,                   \* lines consumed from the words file
    nlines,                   \* lines consumed from the numbers file
    dict,                     \* Dictionary: digit key -> bucket of words
    num,                      \* the current line of the numbers file
    frames,                   \* active calls of print_translations, outermost first
    words,                    \* the segment stack (Vec<WordOrDigit>)
    out,                      \* bytes written to the writer
    solution_count,
    rejected_solution_count,
    emitted                   \* history: the segmentations print_solution wrote

vars == <<pc, nwords, nlines, dict, num, frames, words, out,
          solution_count, rejected_solution_count, emitted>>

\* A call of print_translations(digits, words): its argument, the loop
\* positions i (0-based, as in the code) and j (1-based index in the bucket),
\* found_word, where it stands ("run", "popw" and "popd" after the recursive
\* call of the word loop and of the digit fallback), and the segment stack
\* it was entered with (history).
NewFrame(digits, ws) ==
    [digits |-> digits, i |-> 0, j |-> 1, found_word |-> FALSE,
     pc |-> "run", entry |-> ws]

Top == frames[Len(frames)]

Init ==
    /\ pc = "load"
    /\ nwords = 0
    /\ nlines = 0
    /\ dict = EmptyDict
    /\ num = <<>>
    /\ frames = <<>>
    /\ words = <<>>
    /\ out = <<>>
    /\ solution_count = 0
    /\ rejected_solution_count = 0
    /\ emitted = <<>>

(* -------------------------------- main --------------------------------- *)
\* load_dict: one line of the words file
LoadWord(pool) ==
    /\ pc = "load"
    /\ nwords < MaxWords
    /\ \E word \in pool :
          dict' = DictInsert(dict, word)
    /\ nwords' = nwords + 1
    /\ UNCHANGED <<pc, nlines, num, frames, words, out,
                   solution_count, rejected_solution_count, emitted>>

\* load_dict: end of the words file
LoadDone ==
    /\ pc = "load"
    /\ pc' = "run"
    /\ UNCHANGED <<nwords, nlines, dict, num, frames, words, out,
                   solution_count, rejected_solution_count, emitted>>

\* main: one line of the numbers file, and the top-level call
ReadNumber(pool) ==
    /\ pc = "run"
    /\ frames = <<>>
    /\ nlines < MaxNums
    /\ \E line \in pool :
          /\ num' = line
          /\ frames' = <<NewFrame(StripDigits(line), <<>>)>>
    /\ nlines' = nlines + 1
    /\ words' = <<>>
    /\ UNCHANGED <<pc, nwords, dict, out,
                   solution_count, rejected_solution_count, emitted>>

\* main: end of the numbers file
EndInput ==
    /\ pc = "run"
    /\ frames = <<>>
    /\ pc' = "done"
    /\ UNCHANGED <<nwords, nlines, dict, num, frames, words, out,
                   solution_count, rejected_solution_count, emitted>>

(* ------------------------- print_translations -------------------------- *)
\* variant: the i-th split counted from the end of the digits
SplitFromEnd(f, i) ==
    <<SubSeq(f.digits, 1, Len(f.digits) - i),
      SubSeq(f.digits, Len(f.digits) - i + 1, Len(f.digits))>>

\* digits.split_at(i + 1)
Split(f, i) ==
    <<SubSeq(f.digits, 1, i + 1), SubSeq(f.digits, i + 2, Len(f.digits))>>

Key(f, i) == Split(f, i)[1]

\* variant: the rest of the digits starts one digit late
RestDropsOne(f, i) == SubSeq(Split(f, i)[2], 2, Len(Split(f, i)[2]))
Rest(f, i) == Split(f, i)[2]

\* The (i, j) the two nested loops have still to visit from the frame's
\* position on: i over 0..digits.len(), j over the bucket of the key.
Cands(f) ==
    UNION { {<<i, j>> : j \in (IF i = f.i THEN f.j ELSE 1)..Len(dict[Key(f, i)])} :
            i \in {i \in f.i..(Len(f.digits) - 1) : Key(f, i) \in DOMAIN dict} }

\* loop order: prefix length first, then bucket order
Before(c1, c2) == c1[1] < c2[1] \/ (c1[1] = c2[1] /\ c1[2] <= c2[2])

NextMatch(f) == CHOOSE c \in Cands(f) : \A c2 \in Cands(f) : Before(c, c2)

\* variant: the top of the stack is never taken for a digit
last_is_digitNever == FALSE
last_is_digit == words # <<>> /\ IsDigit(Last(words))

\* What each caller on the call stack chose: the index of its word in the
\* bucket (0: the digit fallback).
Path ==
    [k \in 1..(Len(frames) - 1) |->
        IF frames[k].pc = "popw" THEN frames[k].j ELSE 0]

Running == pc = "run" /\ frames # <<>> /\ Top.pc = "run"

\* variant: a rejected candidate is not counted
BaseCaseNoRejectCount ==
    /\ Running
    /\ Top.digits = <<>>
    /\ LET r == print_solution(num, words) IN
          /\ out' = out \o r.bytes
          /\ IF r.ok
             THEN /\ solution_count' = solution_count + 1
                  /\ emitted' = Append(emitted,
                         [line |-> nlines, digits |-> frames[1].digits,
                          segs |-> words, path |-> Path])
             ELSE UNCHANGED <<solution_count, emitted>>
    /\ UNCHANGED rejected_solution_count
    /\ frames' = Front(frames)
    /\ UNCHANGED <<pc, nwords, nlines, dict, num, words>>

\* digits.is_empty(): print_solution, one of the two counters, return
BaseCase ==
    /\ Running
    /\ Top.digits = <<>>
    /\ LET r == print_solution(num, words) IN
          /\ out' = out \o r.bytes
          /\ IF r.ok
             THEN /\ solution_count' = solution_count + 1
                  /\ UNCHANGED rejected_solution_count
                  /\ emitted' = Append(emitted,
                         [line |-> nlines, digits |-> frames[1].digits,
                          segs |-> words, path |-> Path])
             ELSE /\ rejected_solution_count' = rejected_solution_count + 1
                  /\ UNCHANGED <<solution_count, emitted>>
    /\ frames' = Front(frames)
    /\ UNCHANGED <<pc, nwords, nlines, dict, num, words>>

\* the word loops: the next word of the next bucket is pushed and the
\* search called on the rest of the digits
PushWord ==
    /\ Running
    /\ Top.digits # <<>>
    /\ Cands(Top) # {}
    /\ LET c == NextMatch(Top)
           word == dict[Key(Top, c[1])][c[2]]
           caller == [Top EXCEPT !.i = c[1], !.j = c[2],
                                 !.found_word = TRUE, !.pc = "popw"]
       IN  /\ words' = Append(words, Word(word))
           /\ frames' = Front(frames) \o
                        <<caller, NewFrame(Rest(Top, c[1]), Append(words, Word(word)))>>
    /\ UNCHANGED <<pc, nwords, nlines, dict, num, out,
                   solution_count, rejected_solution_count, emitted>>

\* variant: the word is left on the stack after the recursive call
PopWordNoPop ==
    /\ pc = "run" /\ frames # <<>> /\ Top.pc = "popw"
    /\ frames' = [frames EXCEPT ![Len(frames)] =
                     [@ EXCEPT !.j = @ + 1, !.pc = "run"]]
    /\ UNCHANGED <<pc, nwords, nlines, dict, num, words, out,
                   solution_count, rejected_solution_count, emitted>>

\* words.pop() after the recursive call of the word loop
PopWord ==
    /\ pc = "run" /\ frames # <<>> /\ Top.pc = "popw"
    /\ words' = Front(words)
    /\ frames' = [frames EXCEPT ![Len(frames)] =
                     [@ EXCEPT !.j = @ + 1, !.pc = "run"]]
    /\ UNCHANGED <<pc, nwords, nlines, dict, num, out,
                   solution_count, rejected_solution_count, emitted>>

\* if found_word { return }
FoundReturn ==
    /\ Running
    /\ Top.digits # <<>>
    /\ Cands(Top) = {}
    /\ Top.found_word
    /\ frames' = Front(frames)
    /\ UNCHANGED <<pc, nwords, nlines, dict, num, words, out,
                   solution_count, rejected_solution_count, emitted>>

\* variant: the digit fallback without the test of found_word
PushDigitAfterWords ==
    /\ Running
    /\ Top.digits # <<>>
    /\ Cands(Top) = {}
    /\ ~last_is_digit
    /\ LET digit == Top.digits[1] - B0
           caller == [Top EXCEPT !.pc = "popd"]
       IN  /\ words' = Append(words, Digit(digit))
           /\ frames' = Front(frames) \o
                        <<caller, NewFrame(Tail(Top.digits), Append(words, Digit(digit)))>>
    /\ UNCHANGED <<pc, nwords, nlines, dict, num, out,
                   solution_count, rejected_solution_count, emitted>>

\* variant: the digit fallback without the test of the top of the stack
PushDigitAdjacent ==
    /\ Running
    /\ Top.digits # <<>>
    /\ Cands(Top) = {}
    /\ ~Top.found_word
    /\ LET digit == Top.digits[1] - B0
           caller == [Top EXCEPT !.pc = "popd"]
       IN  /\ words' = Append(words, Digit(digit))
           /\ frames' = Front(frames) \o
                        <<caller, NewFrame(Tail(Top.digits), Append(words, Digit(digit)))>>
    /\ UNCHANGED <<pc, nwords, nlines, dict, num, out,
                   solution_count, rejected_solution_count, emitted>>

\* the digit fallback: push digits[0] - b'0' and search digits[1..]
PushDigit ==
    /\ Running
    /\ Top.digits # <<>>
    /\ Cands(Top) = {}
    /\ ~Top.found_word
    /\ ~last_is_digit
    /\ LET digit == Top.digits[1] - B0
           caller == [Top EXCEPT !.pc = "popd"]
       IN  /\ words' = Append(words, Digit(digit))
           /\ frames' = Front(frames) \o
                        <<caller, NewFrame(Tail(Top.digits), Append(words, Digit(digit)))>>
    /\ UNCHANGED <<pc, nwords, nlines, dict, num, out,
                   solution_count, rejected_solution_count, emitted>>

\* words.pop() after the recursive call of the digit fallback, and return
PopDigit ==
    /\ pc = "run" /\ frames # <<>> /\ Top.pc = "popd"
    /\ words' = Front(words)
    /\ frames' = Front(frames)
    /\ UNCHANGED <<pc, nwords, nlines, dict, num, out,
                   solution_count, rejected_solution_count, emitted>>

\* no word matched and the top of the stack is a digit: the call returns
DeadEnd ==
    /\ Running
    /\ Top.digits # <<>>
    /\ Cands(Top) = {}
    /\ ~Top.found_word
    /\ last_is_digit
    /\ frames' = Front(frames)
    /\ UNCHANGED <<pc, nwords, nlines, dict, num, words, out,
                   solution_count, rejected_solution_count, emitted>>

Search ==
    \/ BaseCase
    \/ PushWord
    \/ PopWord
    \/ FoundReturn
    \/ PushDigit
    \/ PopDigit
    \/ DeadEnd

Next ==
    \/ LoadWord(WordLines)
    \/ LoadDone
    \/ ReadNumber(NumLines)
    \/ EndInput
    \/ Search

Spec == Init /\ [][Next]_vars

\* the same program reading the lines of the worked example
NextEx ==
    \/ LoadWord(ExWords)
    \/ LoadDone
    \/ ReadNumber(ExNums)
    \/ EndInput
    \/ Search

SpecEx == Init /\ [][NextEx]_vars

(* ======================== properties of the code ======================= *)
RECURSIVE Reconstruct(_)
Reconstruct(segs) ==
    IF segs = <<>> THEN <<>>
    ELSE (IF Head(segs).kind = "Word"
          THEN word_to_number(Head(segs).w)
          ELSE <<Head(segs).d + B0>>) \o Reconstruct(Tail(segs))

WordSegs(segs) == SelectSeq(segs, LAMBDA g : g.kind = "Word")

Alternates(segs) ==
    \A k \in 1..(Len(segs) - 1) : IsDigit(segs[k]) # IsDigit(segs[k + 1])

\* C1: every emitted segmentation reconstructs the digit string of its
\* number: the keys of its words (word_to_number) and its literal digits,
\* concatenated in stack order, are the digits the search was called with.
C1_EmittedReconstructs ==
    \A k \in 1..Len(emitted) :
        Reconstruct(emitted[k].segs) = emitted[k].digits

\* an emitted segmentation with a word whose text is longer than its key
\* and with a digit segment
C1_Witness ==
    \E k \in 1..Len(emitted) :
        /\ \E a \in 1..Len(emitted[k].segs) : IsDigit(emitted[k].segs[a])
        /\ \E a \in 1..Len(emitted[k].segs) :
              /\ emitted[k].segs[a].kind = "Word"
              /\ Len(emitted[k].segs[a].w) > Len(word_to_number(emitted[k].segs[a].w))

\* C2: in every emitted segmentation of more than one segment the kinds
\* strictly alternate and every word segment has the length of the first
\* word segment of the stack, also when a digit segment precedes it.
C2_AlternateAndOneLength ==
    \A k \in 1..Len(emitted) :
        LET segs == emitted[k].segs IN
        Len(segs) > 1 =>
            /\ Alternates(segs)
            /\ \A a \in 1..Len(WordSegs(segs)) :
                  Len(WordSegs(segs)[a].w) = Len(WordSegs(segs)[1].w)

\* an emitted segmentation digit, word, digit, word
C2_Witness ==
    \E k \in 1..Len(emitted) :
        LET segs == emitted[k].segs IN
        /\ Len(segs) = 4
        /\ IsDigit(segs[1])
        /\ Len(WordSegs(segs)) = 2

\* a visit of the base case: the running call has no digits left
BaseVisit == Running /\ Top.digits = <<>>

\* C3: both counters start at 0, each visit of the base case adds one to
\* exactly one of them, and no other step changes either: their sum is the
\* number of base-case visits of the run.
C3_CountersCountBaseVisits ==
    /\ solution_count = 0 /\ rejected_solution_count = 0
    /\ [][ IF BaseVisit
           THEN \/ /\ solution_count' = solution_count + 1
                   /\ rejected_solution_count' = rejected_solution_count
                \/ /\ solution_count' = solution_count
                   /\ rejected_solution_count' = rejected_solution_count + 1
           ELSE UNCHANGED <<solution_count, rejected_solution_count>> ]_vars

\* the end of a run of two numbers that accepted and rejected candidates
C3_Witness ==
    /\ pc = "done"
    /\ nlines = 2
    /\ solution_count > 0
    /\ rejected_solution_count > 0

ExDict == load_dict(<<tree, free>>)

\* C4 as stated: with the words tree and free and the single number 3733
\* the output is the line `3733: free`.
C4_Original ==
    (pc = "done" /\ dict = ExDict /\ nlines = 1 /\ num = n3733) =>
        out = n3733 \o <<":", " ">> \o free \o <<"\n">>

\* C4 amended: tree and free both have the key 4200; the number 3733 gives
\* no output and no candidate, the number 4200 gives `4200: tree` and then
\* `4200: free`.
C4_ExampleOutput ==
    (pc = "done" /\ dict = ExDict /\ nlines = 1) =>
        /\ num = n3733 =>
              /\ out = <<>>
              /\ solution_count = 0
              /\ rejected_solution_count = 0
        /\ num = n4200 =>
              /\ out = n4200 \o <<":", " ">> \o tree \o <<"\n">>
                       \o n4200 \o <<":", " ">> \o free \o <<"\n">>
              /\ solution_count = 2

\* the run over tree, free and the single number 3733 has ended
C4_Witness ==
    pc = "done" /\ dict = ExDict /\ nlines = 1 /\ num = n3733

\* the top-level call of a number without digits
EmptyNumberVisit == BaseVisit /\ Len(frames) = 1

\* C5 as stated: after a first number without digits the writer holds the
\* bare line `<number>:` and the accepted counter is 0.
C5_Original ==
    (pc = "run" /\ frames = <<>> /\ nlines = 1 /\ StripDigits(num) = <<>>) =>
        /\ out = num \o <<":">>
        /\ solution_count = 0

\* C5 amended: the base case of a number without digits writes nothing,
\* leaves the accepted counter and adds one to the rejected counter.
C5_EmptyNumberRejected ==
    [][ EmptyNumberVisit =>
           /\ out' = out
           /\ solution_count' = solution_count
           /\ rejected_solution_count' = rejected_solution_count + 1 ]_vars

\* a number of separators only has been searched after a number with output
C5_Witness ==
    /\ pc = "run" /\ frames = <<>> /\ nlines = 2
    /\ num = <<"-">>
    /\ out # <<>>
    /\ rejected_solution_count > 0

\* the digits a segment consumed: the key of a word, one digit
Consumed(seg) == IF seg.kind = "Word" THEN Len(word_to_number(seg.w)) ELSE 1

\* the k-th choice of an emitted segmentation: prefix length, bucket index
Choice(e, k) == <<Consumed(e.segs[k]), e.path[k]>>

\* the first position where two emitted segmentations differ
FirstDiff(e1, e2) ==
    {k \in 1..Len(e1.segs) : /\ k <= Len(e2.segs)
                             /\ Choice(e1, k) # Choice(e2, k)
                             /\ \A m \in 1..(k - 1) : Choice(e1, m) = Choice(e2, m)}

\* C6: the lines are written in depth-first order: of two emitted
\* segmentations the lines of an earlier number come first, and for one
\* number the two differ at a first position, where the one written first
\* consumed the shorter prefix or, for the same prefix, took the earlier
\* word of the bucket.
C6_DepthFirstOrder ==
    \A a, b \in 1..Len(emitted) :
        a < b =>
            /\ emitted[a].line <= emitted[b].line
            /\ emitted[a].line = emitted[b].line =>
                  \E k \in FirstDiff(emitted[a], emitted[b]) :
                      LET x == Choice(emitted[a], k)
                          y == Choice(emitted[b], k)
                      IN  x[1] < y[1] \/ (x[1] = y[1] /\ x[2] < y[2])

\* after a line of the first number, the second number has two lines that
\* first differ in the length of the prefix consumed
C6_Witness ==
    \E a, b, c \in 1..Len(emitted) :
        /\ emitted[a].line = 1
        /\ emitted[b].line = 2 /\ emitted[c].line = 2
        /\ \E k \in FirstDiff(emitted[b], emitted[c]) :
              Choice(emitted[b], k)[1] < Choice(emitted[c], k)[1]

\* after a line of the first number, the second number has two lines that
\* first differ in the word taken from one bucket
C6_BucketOrderReached ==
    \E a, b, c \in 1..Len(emitted) :
        /\ emitted[a].line = 1
        /\ emitted[b].line = 2 /\ emitted[c].line = 2
        /\ \E k \in FirstDiff(emitted[b], emitted[c]) :
              /\ Choice(emitted[b], k)[1] = Choice(emitted[c], k)[1]
              /\ Choice(emitted[b], k)[2] < Choice(emitted[c], k)[2]
              /\ emitted[b].segs[k] # emitted[c].segs[k]

\* C7: in every state of the search the segment stack has no two
\* consecutive digit segments.
C7_NoAdjacentDigits ==
    \A k \in 1..(Len(words) - 1) : ~(IsDigit(words[k]) /\ IsDigit(words[k + 1]))

\* the search stands where no word matches and the top of the stack is a
\* digit
C7_Witness ==
    /\ Running
    /\ Top.digits # <<>>
    /\ Cands(Top) = {}
    /\ ~Top.found_word
    /\ last_is_digit
    /\ Len(words) >= 2

\* some prefix of the digits is a key of the dictionary
SomePrefixIsKey(ds) == \E n \in 1..Len(ds) : SubSeq(ds, 1, n) \in DOMAIN dict

\* C8: a step pushes a digit segment only where no prefix of the remaining
\* digits is a key of the dictionary and the top of the stack is no digit.
C8_DigitOnlyWithoutWord ==
    [][ (Len(words') = Len(words) + 1 /\ IsDigit(Last(words'))) =>
           /\ Running
           /\ ~SomePrefixIsKey(Top.digits)
           /\ ~last_is_digit ]_vars

\* the top-level call of the first number returns after its word branches
\* without any accepted candidate, and no digit was tried at its position
C8_Witness ==
    /\ Running
    /\ Len(frames) = 1
    /\ nlines = 1
    /\ Top.found_word
    /\ Cands(Top) = {}
    /\ words = <<>>
    /\ solution_count = 0
    /\ rejected_solution_count > 0

\* C9: a call returns with the segment stack it was entered with, and the
\* stack is empty when the top-level call of a number returns.
C9_StackRestored ==
    [][ Len(frames') < Len(frames) =>
           /\ words' = Top.entry
           /\ frames' = <<>> => words' = <<>> ]_vars

\* the second top-level call has returned after pushes of words and digits
C9_Witness ==
    /\ pc = "run" /\ frames = <<>> /\ nlines = 2
    /\ words = <<>>
    /\ \E k \in 1..Len(emitted) :
          /\ emitted[k].line = 2
          /\ Len(emitted[k].segs) >= 3

\* no substring of the digits is a key of the dictionary
NoKeyAnywhere(ds) ==
    \A a \in 1..Len(ds) : \A b \in a..Len(ds) : SubSeq(ds, a, b) \notin DOMAIN dict

\* C10: the search of at least two digits none of whose substrings is a key
\* visits no base case, writes nothing and changes neither counter.
C10_NoWordNoCandidate ==
    [][ (pc = "run" /\ frames # <<>>
           /\ Len(frames[1].digits) >= 2 /\ NoKeyAnywhere(frames[1].digits)) =>
           /\ ~BaseVisit
           /\ UNCHANGED <<out, solution_count, rejected_solution_count>> ]_vars

\* such a search has ended under a dictionary that has keys
C10_Witness ==
    /\ pc = "run" /\ frames = <<>> /\ nlines = 1
    /\ Len(StripDigits(num)) >= 2
    /\ NoKeyAnywhere(StripDigits(num))
    /\ \E key \in DOMAIN dict : key # <<>>
    /\ out = <<>>

====
